---- MODULE Spec2Model ----
(***************************************************************************)
(* Model of scripts/migrate_normalizers.py: the source-to-source migration *)
(* of `impl ResourceNormalizer for XNormalizer` blocks to the asynchronous *)
(* trait, and the command-line driver around it.                           *)
(*                                                                         *)
(* A file's text is a sequence of lexical pieces ("tokens").  Each token   *)
(* is a record [k, n, v, i, d]: its kind k, a name n (type name, type-tag  *)
(* literal or variable), a second name v, the number i of whitespace       *)
(* characters that precede the token's text, and, for the generated fetch  *)
(* code, the length d of the indentation string the script captured and    *)
(* repeats on each of its lines.  Offsets are character offsets, as in the *)
(* script: every regular expression of the script matches the text of      *)
(* exactly one kind of token, so a search is a search for a token that     *)
(* lies inside the searched slice.  Whitespace is a newline followed by    *)
(* spaces, so a suffix of it is determined by its length.                  *)
(***************************************************************************)
EXTENDS Integers, Sequences, FiniteSets, TLC

VARIABLES
    argv,              \* sys.argv[1:], the paths given on the command line
    fs,                \* the file system: path -> text (a token sequence)
    present,           \* the set of paths that exist
    fs0,               \* the file system when the run started (never changed)
    pc,                \* position of main / migrate_normalizer_file
    idx,               \* index of the current file in files_to_process
    content,           \* migrate_normalizer_file: the in-memory buffer
    original_content,  \* migrate_normalizer_file: the text that was read
    matches,           \* list(re.finditer(pattern, content))
    mi,                \* number of matches not yet processed (loop runs reversed)
    outcomes,          \* what each loop iteration of the current file did
    stdout,            \* the lines printed so far
    migrated_count,    \* main: number of files reported as migrated
    ret,               \* the value migrate_normalizer_file returned last
    exit_code,         \* the process exit status, -1 while running
    reads,             \* path -> number of read_text calls
    writes             \* path -> number of write_text calls

vars == <<argv, fs, present, fs0, pc, idx, content, original_content, matches,
          mi, outcomes, stdout, migrated_count, ret, exit_code, reads, writes>>

-----------------------------------------------------------------------------
(* Bounds of the model *)

MaxBlocks == 2      \* implementation blocks per generated input file
MaxArgs == 2        \* command-line arguments
TagsIndent == 9     \* whitespace before a tag-extraction statement: "\n" and 8 spaces

(* The look-ahead window of the script: content[start_pos:start_pos + 5000] *)
Window == 5000

-----------------------------------------------------------------------------
(* Tokens *)

Tok(k, n, v, i) == [k |-> k, n |-> n, v |-> v, i |-> i, d |-> 0]

(* Lengths of the identifiers and literals the model uses. *)
StrLen(s) ==
    CASE s = "FooNormalizer" -> 13
      [] s = "FooNormalizerExtNormalizer" -> 26
      [] s \in {"AWS::T1::R", "AWS::T2::R", "AWS::T3::R", "AWS::T4::R"} -> 10
      [] s \in {"id1", "id2", "id3", "id4", "alt"} -> 3
      [] OTHER -> 0

(* IsPrefix(a, b): the text a is a prefix of the text b. *)
IsPrefix(a, b) ==
    \/ a = b
    \/ a = "FooNormalizer" /\ b = "FooNormalizerExtNormalizer"

(* Length of a token's text without the whitespace before it. *)
CoreLen(t) ==
    CASE t.k = "UseAnyhow" -> 19       \* use anyhow::Result;
      [] t.k = "UseChrono" -> 28       \* use chrono::{DateTime, Utc};
      [] t.k = "UseAsync" -> 29        \* use async_trait::async_trait;
      [] t.k = "Hdr" -> 30 + StrLen(t.n)       \* impl ResourceNormalizer for N {
      [] t.k = "AsyncHdr" -> 50 + StrLen(t.n)  \* #[async_trait] impl Async.. for N {
      [] t.k = "NormSig" -> 187        \* fn normalize(...) -> Result<ResourceEntry> {
      [] t.k = "AsyncSig" -> 233       \* async fn normalize(..., aws_client: ..) -> .. {
      [] t.k = "IdBind" -> 30 + StrLen(t.n)    \* let V = raw_response.get("Id");
      [] t.k = "Tags" -> 39            \* let tags = extract_tags(&raw_response);
      [] t.k = "AsyncTags" -> 258 + 7 * t.d + 2 * StrLen(t.n) + 2 * StrLen(t.v)
      [] t.k = "Fallback" -> 46        \* // Fallback to local extraction for sync path
      [] t.k = "ResType" -> 52 + StrLen(t.n)   \* fn resource_type(..) -> .. { "T"
      [] t.k = "Close" -> 1            \* }
      [] t.k = "Banner" -> 188         \* the three banner lines
      [] t.k = "Comment" -> 14         \* // normalizers
      [] t.k = "OtherSig" -> 30        \* fn describe(&self) -> String {
      [] t.k = "Pad" -> Window         \* a long stretch of unrelated text
      [] OTHER -> 0

(* Width of a token: the whitespace before it and its text.  The fetch    *)
(* code starts with its indentation, the last d characters of that         *)
(* whitespace.                                                             *)
Width(t) == t.i + CoreLen(t)

(* Length of the prefix of the token's text that the script's regular      *)
(* expression for this kind of token matches.                              *)
MatchLen(t) ==
    IF t.k = "IdBind" THEN 19 + StrLen(t.n)    \* let V = raw_response
    ELSE CoreLen(t)

(* The braces of a token's text, in order: 1 for "{", -1 for "}". *)
Braces(t) ==
    CASE t.k \in {"Hdr", "AsyncHdr", "NormSig", "AsyncSig", "OtherSig", "ResType"} -> <<1>>
      [] t.k = "Close" -> <<-1>>
      [] t.k = "UseChrono" -> <<1, -1>>
      [] t.k = "AsyncTags" -> <<1, 1, -1, 1, -1, -1>>
      [] OTHER -> <<>>

RECURSIVE TextLen(_)
TextLen(c) == IF c = <<>> THEN 0 ELSE Width(c[1]) + TextLen(Tail(c))

(* Off(c, j): character offset at which token j of c starts (with its      *)
(* leading whitespace); Off(c, Len(c) + 1) is the length of the text.      *)
Off(c, j) == TextLen(SubSeq(c, 1, j - 1))

(* Character offset at which the text of token j starts. *)
CoreOff(c, j) == Off(c, j) + c[j].i

MinOf(S) == CHOOSE x \in S : \A y \in S : x <= y

-----------------------------------------------------------------------------
(* Searching the buffer *)

(* Token t of kind k, starting at offset o, as a match of its regular      *)
(* expression inside the slice [lo, hi) of characters.                     *)
Hit(t, o, k, lo, hi) ==
    /\ t.k = k
    /\ o + t.i >= lo
    /\ o + t.i + MatchLen(t) <= hi

(* Index of the first token of kind k matched in c[lo:hi], 0 if none:      *)
(* re.search, and element 0 of re.finditer.  j is the token looked at and  *)
(* o its offset.                                                           *)
RECURSIVE SearchFrom(_, _, _, _, _, _)
SearchFrom(c, j, o, k, lo, hi) ==
    IF j > Len(c) \/ o >= hi THEN 0
    ELSE IF Hit(c[j], o, k, lo, hi) THEN j
    ELSE SearchFrom(c, j + 1, o + Width(c[j]), k, lo, hi)

Search(c, k, lo, hi) == SearchFrom(c, 1, 0, k, lo, hi)

(* Where a match of (\s+)let tags = extract_tags\(&raw_response\); on      *)
(* token j starts when the slice starts at lo: at the token's whitespace,  *)
(* or at lo when the slice starts inside that whitespace.                  *)
TagsMatchStart(c, j, lo) == IF Off(c, j) < lo THEN lo ELSE Off(c, j)

(* Token t at offset o as a match of the tag-extraction pattern in the     *)
(* slice [lo, hi): at least one whitespace character of the slice precedes *)
(* the statement.                                                          *)
TagsHit(t, o, lo, hi) ==
    /\ t.k = "Tags"
    /\ (IF o < lo THEN lo ELSE o) < o + t.i
    /\ o + t.i + CoreLen(t) <= hi

RECURSIVE SearchTagsFrom(_, _, _, _, _)
SearchTagsFrom(c, j, o, lo, hi) ==
    IF j > Len(c) \/ o >= hi THEN 0
    ELSE IF TagsHit(c[j], o, lo, hi) THEN j
    ELSE SearchTagsFrom(c, j + 1, o + Width(c[j]), lo, hi)

SearchTags(c, lo, hi) == SearchTagsFrom(c, 1, 0, lo, hi)

(* Mutant of FindImpl: the text searched is the header of the              *)
(* asynchronous trait, 'impl AsyncResourceNormalizer for <name>'.          *)
FindImpl_AsyncHeader(c, name) ==
    LET S == {j \in 1..Len(c) : c[j].k = "AsyncHdr" /\ IsPrefix(name, c[j].n)}
    IN  IF S = {} THEN 0 ELSE MinOf(S)

(* content.find('impl ResourceNormalizer for <name>'): the first header    *)
(* whose text starts with that of the header of <name>; 0 if none.         *)
FindImpl(c, name) ==
    LET S == {j \in 1..Len(c) : c[j].k = "Hdr" /\ IsPrefix(name, c[j].n)}
    IN  IF S = {} THEN 0 ELSE MinOf(S)

(* The brace-counting loop, token by token, from token j with the count at *)
(* n: the index of the token whose "}" brings the count back to zero after *)
(* a "{" was seen, 0 when the text ends first.                             *)
RECURSIVE ScanBraces(_, _, _, _, _)
ScanBraces(c, j, b, n, found) ==
    IF j > Len(c) THEN 0
    ELSE IF b > Len(Braces(c[j])) THEN ScanBraces(c, j + 1, 1, n, found)
    ELSE LET n2 == n + Braces(c[j])[b]
             f2 == found \/ Braces(c[j])[b] = 1
         IN  IF Braces(c[j])[b] = -1 /\ f2 /\ n2 = 0 THEN j
             ELSE ScanBraces(c, j, b + 1, n2, f2)

ImplEnd(c, p) == ScanBraces(c, p, 1, 0, FALSE)

-----------------------------------------------------------------------------
(* Step 1: the async_trait import *)

Has(c, k) == \E j \in 1..Len(c) : c[j].k = k

RECURSIVE ReplaceAnyhow(_)
ReplaceAnyhow(c) ==
    IF c = <<>> THEN <<>>
    ELSE (IF c[1].k = "UseAnyhow"
          THEN <<c[1], Tok("UseAsync", "", "", 1)>>
          ELSE <<c[1]>>) \o ReplaceAnyhow(Tail(c))

RECURSIVE ReplaceChrono(_)
ReplaceChrono(c) ==
    IF c = <<>> THEN <<>>
    ELSE (IF c[1].k = "UseChrono"
          THEN <<Tok("UseAsync", "", "", c[1].i), Tok("UseChrono", "", "", 1)>>
          ELSE <<c[1]>>) \o ReplaceChrono(Tail(c))

AddImport(c) ==
    IF Has(c, "UseAsync") THEN c
    ELSE IF Has(c, "UseAnyhow") THEN ReplaceAnyhow(c)
    ELSE IF Has(c, "UseChrono") THEN ReplaceChrono(c)
    ELSE c

-----------------------------------------------------------------------------
(* Step 2: the headers *)

(* list(re.finditer(r'impl ResourceNormalizer for (\w+Normalizer) \{')):   *)
(* group(1) and start() of every header, in textual order.                 *)
RECURSIVE MatchesFrom(_, _, _)
MatchesFrom(c, j, o) ==
    IF j > Len(c) THEN <<>>
    ELSE (IF c[j].k = "Hdr"
          THEN <<[name |-> c[j].n, start |-> o + c[j].i]>>
          ELSE <<>>) \o MatchesFrom(c, j + 1, o + Width(c[j]))

FindMatches(c) == MatchesFrom(c, 1, 0)

-----------------------------------------------------------------------------
(* The body of the loop over the matches *)

(* async_tags_code for the captured indentation (of length d), the type    *)
(* tag and the resource-id variable, standing where token t stood.         *)
AsyncTagsCode(t, d, rtype, var) ==
    [k |-> "AsyncTags", n |-> rtype, v |-> var, i |-> t.i, d |-> d]

(* content[:tags_line_start] + async_tags_code + content[tags_line_end:]   *)
ReplaceTags(c, tj, d, rtype, var) ==
    [c EXCEPT ![tj] = AsyncTagsCode(c[tj], d, rtype, var)]

(* content[impl_insertion_point:impl_end]: tokens p..e, without the        *)
(* whitespace before the header.                                           *)
OriginalImpl(c, p, e) ==
    LET blk == SubSeq(c, p, e) IN [blk EXCEPT ![1].i = 0]

(* re.sub of the synchronous signature by the asynchronous one. *)
RECURSIVE AsyncSignatures(_)
AsyncSignatures(b) ==
    IF b = <<>> THEN <<>>
    ELSE <<IF b[1].k = "NormSig" THEN [b[1] EXCEPT !.k = "AsyncSig"] ELSE b[1]>>
         \o AsyncSignatures(Tail(b))

(* async_impl: the header of original_impl (its first occurrence of the    *)
(* searched header text) renamed, then every signature made asynchronous.  *)
AsyncImpl(orig) ==
    AsyncSignatures([orig EXCEPT ![1].k = "AsyncHdr"])

(* original_impl.replace(async_tags_code, indent + 'let tags =             *)
(* extract_tags(&raw_response); // Fallback to local extraction ...')      *)
RECURSIVE SyncImpl(_, _, _, _)
SyncImpl(b, d, rtype, var) ==
    IF b = <<>> THEN <<>>
    ELSE (IF b[1].k = "AsyncTags" /\ b[1].d = d /\ b[1].n = rtype /\ b[1].v = var
          THEN <<Tok("Tags", "", "", b[1].i), Tok("Fallback", "", "", 0)>>
          ELSE <<b[1]>>) \o SyncImpl(Tail(b), d, rtype, var)

(* sync_impl_comment, with the blank line that precedes it *)
Banner == Tok("Banner", "", "", 2)

(* modified_impl, spliced over c[impl_insertion_point:impl_end] *)
Splice(c, p, e, d, rtype, var) ==
    LET orig == OriginalImpl(c, p, e)
        async == [AsyncImpl(orig) EXCEPT ![1].i = c[p].i]
    IN  SubSeq(c, 1, p - 1)
        \o async \o <<Banner>> \o SyncImpl(orig, d, rtype, var)
        \o SubSeq(c, e + 1, Len(c))

(* Mutant of LoopBody: the resource-id variable is taken from the binding  *)
(* nearest to the tag-extraction statement (id_matches[-1]).               *)
LoopBody_NearestBinding(c, m) ==
    LET lo == m.start
        hi == m.start + Window
        nj == Search(c, "NormSig", lo, hi)
        tj == SearchTags(c, lo, hi)
        ts == TagsMatchStart(c, tj, lo)
        d  == CoreOff(c, tj) - ts
        B  == {j \in 1..Len(c) : Hit(c[j], Off(c, j), "IdBind", lo, ts)}
        ij == IF B = {} THEN 0 ELSE CHOOSE x \in B : \A y \in B : y <= x
        rj == Search(c, "ResType", lo, hi)
        c1 == ReplaceTags(c, tj, d, c[rj].n, c[ij].n)
        p  == FindImpl(c1, m.name)
        e  == ImplEnd(c1, p)
        skip(r) == [content |-> c, res |-> r, name |-> m.name, tj |-> 0, p |-> 0]
    IN  IF nj = 0 THEN skip("no_normalize")
        ELSE IF tj = 0 THEN skip("no_tags")
        ELSE IF ij = 0 THEN skip("no_id")
        ELSE IF rj = 0 THEN skip("no_type")
        ELSE IF p = 0
             THEN [content |-> c1, res |-> "lost", name |-> m.name, tj |-> tj, p |-> 0]
        ELSE IF e = 0
             THEN [content |-> c1, res |-> "no_end", name |-> m.name, tj |-> tj, p |-> p]
        ELSE [content |-> Splice(c1, p, e, d, c[rj].n, c[ij].n),
              res |-> "migrated", name |-> m.name, tj |-> tj, p |-> p]

(* Mutant of LoopBody: the tag-extraction statement is replaced before the *)
(* resource_type accessor is looked for, so a match skipped for its        *)
(* missing accessor leaves the replacement in the buffer.                  *)
LoopBody_ReplaceBeforeTypeCheck(c, m) ==
    LET lo == m.start
        hi == m.start + Window
        nj == Search(c, "NormSig", lo, hi)
        tj == SearchTags(c, lo, hi)
        ts == TagsMatchStart(c, tj, lo)
        d  == CoreOff(c, tj) - ts
        ij == Search(c, "IdBind", lo, ts)
        rj == Search(c, "ResType", lo, hi)
        c1 == ReplaceTags(c, tj, d, c[rj].n, c[ij].n)
        p  == FindImpl(c1, m.name)
        e  == ImplEnd(c1, p)
        skip(r) == [content |-> c, res |-> r, name |-> m.name, tj |-> 0, p |-> 0]
    IN  IF nj = 0 THEN skip("no_normalize")
        ELSE IF tj = 0 THEN skip("no_tags")
        ELSE IF ij = 0 THEN skip("no_id")
        ELSE IF rj = 0
             THEN [content |-> ReplaceTags(c, tj, d, "", c[ij].n),
                   res |-> "no_type", name |-> m.name, tj |-> 0, p |-> 0]
        ELSE IF p = 0
             THEN [content |-> c1, res |-> "lost", name |-> m.name, tj |-> tj, p |-> 0]
        ELSE IF e = 0
             THEN [content |-> c1, res |-> "no_end", name |-> m.name, tj |-> tj, p |-> p]
        ELSE [content |-> Splice(c1, p, e, d, c[rj].n, c[ij].n),
              res |-> "migrated", name |-> m.name, tj |-> tj, p |-> p]

(* One iteration of `for match in reversed(matches)` on buffer c: the new  *)
(* buffer and what the iteration did.                                      *)
LoopBody(c, m) ==
    LET lo == m.start
        hi == m.start + Window
        nj == Search(c, "NormSig", lo, hi)
        tj == SearchTags(c, lo, hi)
        ts == TagsMatchStart(c, tj, lo)
        d  == CoreOff(c, tj) - ts
        ij == Search(c, "IdBind", lo, ts)
        rj == Search(c, "ResType", lo, hi)
        c1 == ReplaceTags(c, tj, d, c[rj].n, c[ij].n)
        p  == FindImpl(c1, m.name)
        e  == ImplEnd(c1, p)
        skip(r) == [content |-> c, res |-> r, name |-> m.name, tj |-> 0, p |-> 0]
    IN  IF nj = 0 THEN skip("no_normalize")
        ELSE IF tj = 0 THEN skip("no_tags")
        ELSE IF ij = 0 THEN skip("no_id")
        ELSE IF rj = 0 THEN skip("no_type")
        ELSE IF p = 0
             THEN [content |-> c1, res |-> "lost", name |-> m.name, tj |-> tj, p |-> 0]
        ELSE IF e = 0
             THEN [content |-> c1, res |-> "no_end", name |-> m.name, tj |-> tj, p |-> p]
        ELSE [content |-> Splice(c1, p, e, d, c[rj].n, c[ij].n),
              res |-> "migrated", name |-> m.name, tj |-> tj, p |-> p]

-----------------------------------------------------------------------------
(* Input files *)

Paths == {"a.rs", "b.rs"}

(* Two type names, one a prefix of the other. *)
Names == {"FooNormalizer", "FooNormalizerExtNormalizer"}

(* Type-tag literal and resource-id variable of the b-th block of a file. *)
TypeOf(b) == <<"AWS::T1::R", "AWS::T2::R", "AWS::T3::R", "AWS::T4::R">>[b]
VarOf(b) == <<"id1", "id2", "id3", "id4">>[b]

(* The shapes of implementation block the inputs are built from: a block   *)
(* lacks its normalize method, its tag-extraction statement, its           *)
(* resource-id binding, its resource_type accessor or its closing brace,   *)
(* or lacks nothing.                                                       *)
Shapes == {"ok", "no_norm", "no_tags", "no_id", "no_type", "unclosed"}

(* A well-formed block may be long: its resource_type accessor then lies   *)
(* beyond the look-ahead window of its header.                             *)
BlockSpecs ==
    {bs \in [name : Names, shape : Shapes, long : BOOLEAN] :
        bs.long => bs.shape = "ok"}

(* The text of block number b: header, a method with the resource-id       *)
(* binding and the tag-extraction statement, unrelated text longer than    *)
(* the look-ahead window (when long), the resource_type accessor, "}".     *)
BlockText(bs, b) ==
    <<Tok("Hdr", bs.name, "", 2)>>
    \o <<Tok(IF bs.shape = "no_norm" THEN "OtherSig" ELSE "NormSig", "", "", 5)>>
    \o (IF bs.shape = "no_id" THEN <<>> ELSE <<Tok("IdBind", VarOf(b), "", 9)>>)
    \o (IF bs.shape = "no_tags" THEN <<>> ELSE <<Tok("Tags", "", "", TagsIndent)>>)
    \o <<Tok("Close", "", "", 5)>>
    \o (IF bs.long THEN <<Tok("Pad", "", "", 5)>> ELSE <<>>)
    \o (IF bs.shape = "no_type" THEN <<>>
        ELSE <<Tok("ResType", TypeOf(b), "", 5), Tok("Close", "", "", 5)>>)
    \o (IF bs.shape = "unclosed" THEN <<>> ELSE <<Tok("Close", "", "", 1)>>)

Imports == {"none", "anyhow", "chrono", "async"}

ImportText(imp) ==
    CASE imp = "anyhow" -> <<Tok("UseAnyhow", "", "", 1)>>
      [] imp = "chrono" -> <<Tok("UseChrono", "", "", 1)>>
      [] imp = "async" -> <<Tok("UseAnyhow", "", "", 1), Tok("UseAsync", "", "", 1)>>
      [] OTHER -> <<>>

RECURSIVE BlocksText(_, _, _)
BlocksText(blocks, gap, b) ==
    IF b > Len(blocks) THEN <<>>
    ELSE BlockText(blocks[b], b)
         \o (IF gap /\ b < Len(blocks) THEN <<Tok("Pad", "", "", 2)>> ELSE <<>>)
         \o BlocksText(blocks, gap, b + 1)

(* A file: imports, a comment line, then the blocks, with unrelated text   *)
(* longer than the look-ahead window between them when gap.                *)
FileText(imp, blocks, gap) ==
    <<Tok("Comment", "", "", 0)>> \o ImportText(imp) \o BlocksText(blocks, gap, 1)

BlockSeqs == UNION {[1..n -> BlockSpecs] : n \in 0..MaxBlocks}

Files == {FileText(imp, blocks, gap) :
            imp \in Imports, blocks \in BlockSeqs, gap \in BOOLEAN}

ArgLists == UNION {[1..n -> Paths] : n \in 0..MaxArgs}

(* The files of the runs over several paths: no block, one well-formed     *)
(* block, one block without its resource_type accessor, and two blocks.    *)
Block1(shape) == [name |-> "FooNormalizer", shape |-> shape, long |-> FALSE]
Block2(shape) == [name |-> "FooNormalizerExtNormalizer", shape |-> shape,
                  long |-> FALSE]

DriverFiles ==
    {FileText("anyhow", <<>>, FALSE),
     FileText("anyhow", <<Block1("ok")>>, FALSE),
     FileText("none", <<Block1("no_type")>>, FALSE),
     FileText("async", <<Block1("ok"), Block2("no_tags")>>, FALSE)}

-----------------------------------------------------------------------------
(* Printed lines *)

Line(t, a, n) == [t |-> t, a |-> a, n |-> n]

(* The warning or error an iteration prints, if any. *)
Diagnostic(r) ==
    IF r.res = "migrated" THEN <<>> ELSE <<Line(r.res, r.name, 0)>>

-----------------------------------------------------------------------------
(* The program *)

Path == argv[idx]

Emit(l) == stdout' = Append(stdout, l)

InitRest ==
    /\ fs0 = fs
    /\ pc = "main"
    /\ idx = 0
    /\ content = <<>>
    /\ original_content = <<>>
    /\ matches = <<>>
    /\ mi = 0
    /\ outcomes = <<>>
    /\ stdout = <<>>
    /\ migrated_count = 0
    /\ ret = FALSE
    /\ exit_code = -1
    /\ reads = [p \in Paths |-> 0]
    /\ writes = [p \in Paths |-> 0]

(* Mutant of Usage: the usage line is printed but sys.exit(1) is missing, *)
(* so main goes on to its loop.                                            *)
Usage_NoExit ==
    /\ pc = "main"
    /\ Len(argv) < 1
    /\ Emit(Line("usage", "", 0))
    /\ idx' = 1
    /\ migrated_count' = 0
    /\ pc' = "loop"
    /\ UNCHANGED <<argv, fs, present, fs0, content, original_content, matches,
                   mi, outcomes, ret, exit_code, reads, writes>>

(* main: no file argument: print the usage line and sys.exit(1) *)
Usage ==
    /\ pc = "main"
    /\ Len(argv) < 1
    /\ Emit(Line("usage", "", 0))
    /\ exit_code' = 1
    /\ pc' = "exit"
    /\ UNCHANGED <<argv, fs, present, fs0, idx, content, original_content,
                   matches, mi, outcomes, migrated_count, ret, reads, writes>>

(* main: files_to_process and migrated_count = 0 *)
Start ==
    /\ pc = "main"
    /\ Len(argv) >= 1
    /\ idx' = 1
    /\ migrated_count' = 0
    /\ pc' = "loop"
    /\ UNCHANGED <<argv, fs, present, fs0, content, original_content, matches,
                   mi, outcomes, stdout, ret, exit_code, reads, writes>>

(* Mutant of FileNotFound: the missing file ends the run (sys.exit(1)     *)
(* instead of continue).                                                   *)
FileNotFound_Abort ==
    /\ pc = "loop"
    /\ idx <= Len(argv)
    /\ Path \notin present
    /\ Emit(Line("not_found", Path, 0))
    /\ exit_code' = 1
    /\ pc' = "exit"
    /\ UNCHANGED <<argv, fs, present, fs0, idx, content, original_content,
                   matches, mi, outcomes, migrated_count, ret, reads, writes>>

(* main: the file does not exist: print the error and continue *)
FileNotFound ==
    /\ pc = "loop"
    /\ idx <= Len(argv)
    /\ Path \notin present
    /\ Emit(Line("not_found", Path, 0))
    /\ idx' = idx + 1
    /\ UNCHANGED <<argv, fs, present, fs0, pc, content, original_content,
                   matches, mi, outcomes, migrated_count, ret, exit_code,
                   reads, writes>>

(* Mutant of ReadFile: step 1 is skipped for the path b.rs, so the result  *)
(* depends on the path.                                                    *)
ReadFile_PathDependent ==
    /\ pc = "loop"
    /\ idx <= Len(argv)
    /\ Path \in present
    /\ Emit(Line("processing", Path, 0))
    /\ reads' = [reads EXCEPT ![Path] = @ + 1]
    /\ original_content' = fs[Path]
    /\ content' = IF Path = "b.rs" THEN fs[Path] ELSE AddImport(fs[Path])
    /\ matches' = <<>>
    /\ mi' = 0
    /\ outcomes' = <<>>
    /\ pc' = "find"
    /\ UNCHANGED <<argv, fs, present, fs0, idx, migrated_count, ret, exit_code,
                   writes>>

(* migrate_normalizer_file: print, read the file, add the import (step 1) *)
ReadFile ==
    /\ pc = "loop"
    /\ idx <= Len(argv)
    /\ Path \in present
    /\ Emit(Line("processing", Path, 0))
    /\ reads' = [reads EXCEPT ![Path] = @ + 1]
    /\ original_content' = fs[Path]
    /\ content' = AddImport(fs[Path])
    /\ matches' = <<>>
    /\ mi' = 0
    /\ outcomes' = <<>>
    /\ pc' = "find"
    /\ UNCHANGED <<argv, fs, present, fs0, idx, migrated_count, ret, exit_code,
                   writes>>

(* Mutant of NoMatches: without any header the function still writes the  *)
(* buffer back when step 1 changed it.                                     *)
NoMatches_Writes ==
    /\ pc = "find"
    /\ FindMatches(content) = <<>>
    /\ Emit(Line("none_found", "", 0))
    /\ fs' = [fs EXCEPT ![Path] = content]
    /\ writes' = IF content # original_content
                 THEN [writes EXCEPT ![Path] = @ + 1] ELSE writes
    /\ ret' = (content # original_content)
    /\ pc' = "ret"
    /\ UNCHANGED <<argv, present, fs0, idx, content, original_content,
                   matches, mi, outcomes, migrated_count, exit_code, reads>>

(* migrate_normalizer_file: no header matches: print and return False *)
NoMatches ==
    /\ pc = "find"
    /\ FindMatches(content) = <<>>
    /\ Emit(Line("none_found", "", 0))
    /\ ret' = FALSE
    /\ pc' = "ret"
    /\ UNCHANGED <<argv, fs, present, fs0, idx, content, original_content,
                   matches, mi, outcomes, migrated_count, exit_code, reads,
                   writes>>

(* migrate_normalizer_file: the headers found; the loop starts at the last *)
Found ==
    /\ pc = "find"
    /\ FindMatches(content) # <<>>
    /\ matches' = FindMatches(content)
    /\ mi' = Len(FindMatches(content))
    /\ Emit(Line("found", "", Len(FindMatches(content))))
    /\ pc' = "for"
    /\ UNCHANGED <<argv, fs, present, fs0, idx, content, original_content,
                   outcomes, migrated_count, ret, exit_code, reads, writes>>

(* migrate_normalizer_file: one iteration of the loop, on matches[mi] *)
Iterate ==
    /\ pc = "for"
    /\ mi > 0
    /\ LET r == LoopBody(content, matches[mi])
       IN  /\ content' = r.content
           /\ outcomes' = Append(outcomes, [res |-> r.res, name |-> r.name,
                                            start |-> matches[mi].start,
                                            tj |-> r.tj, p |-> r.p])
           /\ stdout' = stdout \o Diagnostic(r)
    /\ mi' = mi - 1
    /\ UNCHANGED <<argv, fs, present, fs0, pc, idx, original_content, matches,
                   migrated_count, ret, exit_code, reads, writes>>

(* migrate_normalizer_file: the buffer changed: write it, return True *)
WriteBack ==
    /\ pc = "for"
    /\ mi = 0
    /\ content # original_content
    /\ fs' = [fs EXCEPT ![Path] = content]
    /\ writes' = [writes EXCEPT ![Path] = @ + 1]
    /\ Emit(Line("migrated", "", Len(matches)))
    /\ ret' = TRUE
    /\ pc' = "ret"
    /\ UNCHANGED <<argv, present, fs0, idx, content, original_content, matches,
                   mi, outcomes, migrated_count, exit_code, reads>>

(* migrate_normalizer_file: the buffer did not change: return False *)
NoChanges ==
    /\ pc = "for"
    /\ mi = 0
    /\ content = original_content
    /\ Emit(Line("no_changes", "", 0))
    /\ ret' = FALSE
    /\ pc' = "ret"
    /\ UNCHANGED <<argv, fs, present, fs0, idx, content, original_content,
                   matches, mi, outcomes, migrated_count, exit_code, reads,
                   writes>>

(* main: count the file if migrate_normalizer_file returned True *)
Return ==
    /\ pc = "ret"
    /\ migrated_count' = IF ret THEN migrated_count + 1 ELSE migrated_count
    /\ idx' = idx + 1
    /\ pc' = "loop"
    /\ UNCHANGED <<argv, fs, present, fs0, content, original_content, matches,
                   mi, outcomes, stdout, ret, exit_code, reads, writes>>

(* main: the final count; main returns and the process exits with 0 *)
Summary ==
    /\ pc = "loop"
    /\ idx > Len(argv)
    /\ Emit(Line("summary", "", migrated_count))
    /\ exit_code' = 0
    /\ pc' = "exit"
    /\ UNCHANGED <<argv, fs, present, fs0, idx, content, original_content,
                   matches, mi, outcomes, migrated_count, ret, reads, writes>>

Next ==
    \/ Usage
    \/ Start
    \/ FileNotFound
    \/ ReadFile
    \/ NoMatches
    \/ Found
    \/ Iterate
    \/ WriteBack
    \/ NoChanges
    \/ Return
    \/ Summary

(* Runs on one file, of any of the generated texts. *)
InitFile ==
    /\ argv = <<"a.rs">>
    /\ present = {"a.rs"}
    /\ \E f \in Files : fs = [p \in Paths |-> IF p = "a.rs" THEN f ELSE <<>>]
    /\ InitRest

(* Runs on any argument list over two paths, each of which may be missing: *)
(* a path may be given several times, and is then migrated again.          *)
InitDriver ==
    /\ argv \in ArgLists
    /\ present \in SUBSET Paths
    /\ \E f \in [Paths -> DriverFiles] :
          fs = [p \in Paths |-> IF p \in present THEN f[p] ELSE <<>>]
    /\ InitRest

Init == InitFile \/ InitDriver

Spec == Init /\ [][Next]_vars

(* The runs in which a write may fail.  file_path.write_text(content)      *)
(* raises OSError and nothing catches it: the interpreter prints the       *)
(* traceback on stderr and the process ends with status 1.  The file is    *)
(* as it was (it could not be opened) or holds a proper prefix of the new  *)
(* text (it was truncated and the write stopped midway).                   *)
WriteFails ==
    /\ pc = "for"
    /\ mi = 0
    /\ content # original_content
    /\ \E t \in {fs[Path]} \cup {SubSeq(content, 1, k) : k \in 0..(Len(content) - 1)} :
          fs' = [fs EXCEPT ![Path] = t]
    /\ writes' = [writes EXCEPT ![Path] = @ + 1]
    /\ exit_code' = 1
    /\ pc' = "exit"
    /\ UNCHANGED <<argv, present, fs0, idx, content, original_content, matches,
                   mi, outcomes, stdout, migrated_count, ret, reads>>

NextIO ==
    \/ Next
    \/ WriteFails

SpecIO == Init /\ [][NextIO]_vars

-----------------------------------------------------------------------------
(* Vocabulary of the properties *)

HdrIdx(c) == {j \in 1..Len(c) : c[j].k = "Hdr"}

(* The implementation block that starts at token j: up to its matching     *)
(* closing brace, or to the end of the text when the braces never balance; *)
(* without the whitespace before its first token.                          *)
BlockEndTok(c, j) == IF ImplEnd(c, j) = 0 THEN Len(c) ELSE ImplEnd(c, j)

BlockOf(c, j) == [SubSeq(c, j, BlockEndTok(c, j)) EXCEPT ![1].i = 0]

HasKind(b, k) == \E x \in 1..Len(b) : b[x].k = k

CountTok(c, k, n) == Cardinality({j \in 1..Len(c) : c[j].k = k /\ c[j].n = n})

(* The block has no type-tag literal. *)
LacksType(b) == ~HasKind(b, "ResType")

(* The block has the expected shape: one header, balanced braces, the      *)
(* normalize method with a resource-id binding before its tag-extraction   *)
(* statement, and the resource_type accessor.                              *)
WellFormed(c, j) ==
    LET b == BlockOf(c, j)
    IN  /\ ImplEnd(c, j) # 0
        /\ \A x \in 2..Len(b) : b[x].k # "Hdr"
        /\ HasKind(b, "NormSig")
        /\ HasKind(b, "ResType")
        /\ \E x, y \in 1..Len(b) : x < y /\ b[x].k = "IdBind" /\ b[y].k = "Tags"

(* The m-th header of a text, counted from 1. *)
NthHdr(c, m) ==
    CHOOSE j \in HdrIdx(c) : Cardinality({x \in HdrIdx(c) : x <= j}) = m

(* What the loop did with the m-th match, once the loop is over: the loop  *)
(* runs over the matches in reverse.                                       *)
OutcomeOf(m) == outcomes[Len(matches) + 1 - m]

(* migrate_normalizer_file is about to return to main. *)
AtReturn == pc = "ret"

(* The current call is the first one on its path. *)
FirstCall == \A j \in 1..(idx - 1) : argv[j] # Path

LastLine == stdout[Len(stdout)]

(* No two blocks of the text implement the trait for the same type (the    *)
(* text is valid Rust in that respect).                                    *)
DistinctTypes(c) == \A x, y \in HdrIdx(c) : c[x].n = c[y].n => x = y

Occurrences(seq, x) == Cardinality({j \in 1..Len(seq) : seq[j] = x})

-----------------------------------------------------------------------------
(* The run as a function of the argument list and the file system *)

(* The loop over the matches, from the last match down to the first. *)
RECURSIVE LoopAll(_, _, _)
LoopAll(c, ms, k) ==
    IF k = 0 THEN c ELSE LoopAll(LoopBody(c, ms[k]).content, ms, k - 1)

(* migrate_normalizer_file on a file holding `text`: the text the file     *)
(* holds afterwards and the value returned.                                *)
MigrateText(text) ==
    LET c0 == AddImport(text)
        ms == FindMatches(c0)
        c  == LoopAll(c0, ms, Len(ms))
    IN  IF ms = <<>> THEN [text |-> text, ret |-> FALSE]
        ELSE [text |-> c, ret |-> c # text]

(* main's loop over a list of paths that all exist. *)
RECURSIVE RunList(_, _, _)
RunList(f, args, n) ==
    IF args = <<>> THEN [fs |-> f, count |-> n]
    ELSE LET r == MigrateText(f[Head(args)])
         IN  RunList([f EXCEPT ![Head(args)] = r.text], Tail(args),
                     IF r.ret THEN n + 1 ELSE n)

Exists(p) == p \in present

-----------------------------------------------------------------------------
(* C1: idempotence.  A run of migrate_normalizer_file on a file that an    *)
(* earlier run of the same invocation already processed migrates no block, *)
(* writes nothing and returns False.                                       *)
C1_SecondRunChangesNothing ==
    (AtReturn /\ ~FirstCall) =>
        /\ ret = FALSE
        /\ fs[Path] = original_content
        /\ \A k \in 1..Len(outcomes) : outcomes[k].res # "migrated"

(* C2: skip-on-mismatch.  After a run on a file, every block of the file   *)
(* that has no type-tag literal is still in the file, unchanged; the       *)
(* "Migrated N normalizer(s)" figure counts no such block; and a file all  *)
(* of whose blocks lack the literal is not counted as migrated.            *)
C2_UntypedBlockSkipped ==
    (AtReturn /\ FirstCall) =>
        LET c == original_content
            untyped == {j \in HdrIdx(c) : LacksType(BlockOf(c, j))}
        IN  /\ \A j \in untyped :
                  \E x \in HdrIdx(fs[Path]) : BlockOf(fs[Path], x) = BlockOf(c, j)
            /\ LastLine.t = "migrated" =>
                  LastLine.n <= Cardinality(HdrIdx(c) \ untyped)
            /\ (HdrIdx(c) # {} /\ untyped = HdrIdx(c)) => ret = FALSE

(* C3: in a file of two blocks, one well-formed and one that lacks only    *)
(* the resource_type accessor, the well-formed block is migrated and the   *)
(* other one is skipped with the warning that names its type, in both      *)
(* textual orders.  Stated for files that name each type once.             *)
OnlyLacksType(c, j) ==
    LET b == BlockOf(c, j)
    IN  /\ ImplEnd(c, j) # 0
        /\ \A x \in 2..Len(b) : b[x].k # "Hdr"
        /\ HasKind(b, "NormSig")
        /\ LacksType(b)
        /\ \E x, y \in 1..Len(b) : x < y /\ b[x].k = "IdBind" /\ b[y].k = "Tags"

C3_OneMigratedOneSkipped ==
    (/\ AtReturn /\ FirstCall
     /\ Cardinality(HdrIdx(original_content)) = 2
     /\ DistinctTypes(original_content)) =>
        LET c == original_content
        IN  \A good, bad \in 1..2 :
              (/\ good # bad
               /\ WellFormed(c, NthHdr(c, good))
               /\ OnlyLacksType(c, NthHdr(c, bad)))
              => /\ OutcomeOf(good).res = "migrated"
                 /\ OutcomeOf(bad).res = "no_type"
                 /\ \E k \in 1..Len(stdout) :
                       stdout[k] = Line("no_type", c[NthHdr(c, bad)].n, 0)

(* C4: fallback safety.  In the buffer migrate_normalizer_file ends with,  *)
(* every retained synchronous block (the block under a deprecation banner) *)
(* contains the local tag-extraction statement and no asynchronous fetch   *)
(* code, which uses the aws_client parameter the block does not have.      *)
(* Stated for the first run on a file that names each type once.           *)
C4_RetainedBlockExtractsLocally ==
    (AtReturn /\ FirstCall /\ DistinctTypes(original_content)) =>
        \A j \in HdrIdx(content) :
            (j > 1 /\ content[j - 1].k = "Banner") =>
                /\ HasKind(BlockOf(content, j), "Tags")
                /\ ~HasKind(BlockOf(content, j), "AsyncTags")

(* C5: for every match that was migrated, the buffer holds an asynchronous *)
(* block for the match's type, followed by the blank line, the banner and  *)
(* the retained synchronous block for the same type.  Stated for the first *)
(* run on a file whose blocks are all well-formed and name each type once. *)
AsyncThenSync(c, name) ==
    \E j \in 1..Len(c) :
        /\ c[j].k = "AsyncHdr" /\ c[j].n = name
        /\ LET e == ImplEnd(c, j)
           IN  /\ e # 0
               /\ e + 2 <= Len(c)
               /\ c[e + 1] = Banner
               /\ c[e + 2] = Tok("Hdr", name, "", 0)

C5_AsyncBlockPrecedesSync ==
    (/\ AtReturn /\ FirstCall
     /\ DistinctTypes(original_content)
     /\ \A j \in HdrIdx(original_content) : WellFormed(original_content, j)) =>
        \A k \in 1..Len(outcomes) :
            outcomes[k].res = "migrated" => AsyncThenSync(content, outcomes[k].name)

(* C6: after a run on a file whose blocks are all well-formed, the file is *)
(* reported as changed and each migrated type has exactly one asynchronous *)
(* block and exactly one synchronous block.                                *)
C6_OneAsyncOneSyncPerType ==
    (/\ AtReturn /\ FirstCall
     /\ HdrIdx(original_content) # {}
     /\ \A j \in HdrIdx(original_content) : WellFormed(original_content, j))
    => /\ ret = TRUE
       /\ \A k \in 1..Len(outcomes) :
             outcomes[k].res = "migrated" =>
                /\ CountTok(content, "AsyncHdr", outcomes[k].name) = 1
                /\ CountTok(content, "Hdr", outcomes[k].name) = 1

(* C7: a path that does not exist does not halt the run.  Once main has    *)
(* gone through a non-empty argument list, the file system and the count   *)
(* of migrated files are those of the run over the existing paths of the   *)
(* list alone; every existing path was read once per occurrence; a missing *)
(* path was neither read nor written nor created, and one error line was   *)
(* printed per occurrence of it.  The step main takes at a missing path   *)
(* only prints that line and moves on to the next path.                    *)
ExistingArgs == SelectSeq(argv, Exists)

AtMissingPath == pc = "loop" /\ idx <= Len(argv) /\ ~Exists(Path)

RunMatchesExistingArgs ==
    (pc = "exit" /\ Len(argv) >= 1) =>
        LET r == RunList(fs0, ExistingArgs, 0)
        IN  /\ fs = r.fs
            /\ migrated_count = r.count
            /\ LastLine = Line("summary", "", r.count)
            /\ \A p \in Paths :
                  IF Exists(p)
                  THEN reads[p] = Occurrences(argv, p)
                  ELSE /\ reads[p] = 0
                       /\ writes[p] = 0
                       /\ fs[p] = fs0[p]
                       /\ Occurrences(stdout, Line("not_found", p, 0))
                            = Occurrences(argv, p)

C7_MissingFileSkipped ==
    /\ []RunMatchesExistingArgs
    /\ [][AtMissingPath =>
            /\ pc' = "loop" /\ idx' = idx + 1
            /\ stdout' = Append(stdout, Line("not_found", Path, 0))
            /\ UNCHANGED <<fs, present, migrated_count, exit_code, reads,
                           writes>>]_vars

(* A missing path ahead of a file that the run then migrates. *)
C7_Witness ==
    /\ pc = "exit"
    /\ Len(argv) = 2
    /\ ~Exists(argv[1])
    /\ Exists(argv[2])
    /\ writes[argv[2]] = 1
    /\ migrated_count = 1

(* C8: a run given a path that does not exist ends with a nonzero exit     *)
(* status.                                                                 *)
C8_MissingFileExitsNonzero ==
    (pc = "exit" /\ \E j \in 1..Len(argv) : ~Exists(argv[j])) => exit_code # 0

(* C9: with no file argument main prints the usage line and exits with a   *)
(* nonzero status, and no file is read or written.                         *)
C9_NoArgumentsUsage ==
    Len(argv) = 0 =>
        /\ pc \in {"main", "exit"}
        /\ fs = fs0
        /\ \A p \in Paths : reads[p] = 0 /\ writes[p] = 0
        /\ pc = "exit" => (exit_code # 0 /\ stdout = <<Line("usage", "", 0)>>)

C9_Witness == Len(argv) = 0 /\ pc = "exit" /\ exit_code = 1

(* C10 as claimed: a call of migrate_normalizer_file reads its file once   *)
(* and writes it at most once, and it writes exactly when the buffer it    *)
(* ends with differs from the text it read, the case of no matching header *)
(* included.                                                               *)
CallReturns == pc # "ret" /\ pc' = "ret"

OneReadPerCall ==
    /\ reads' # reads =>
          (pc = "loop" /\ pc' = "find" /\ reads' = [reads EXCEPT ![Path] = @ + 1])
    /\ (pc = "loop" /\ pc' = "find") => reads' # reads

AtMostOneWrite ==
    /\ (writes' # writes \/ fs' # fs) => CallReturns
    /\ CallReturns =>
          \/ writes' = writes /\ fs' = fs
          \/ /\ writes' = [writes EXCEPT ![Path] = @ + 1]
             /\ fs' = [fs EXCEPT ![Path] = content]

C10_WriteIffBufferDiffers ==
    [][/\ OneReadPerCall
       /\ AtMostOneWrite
       /\ CallReturns => (writes' # writes <=> content # original_content)]_vars

(* C10 as amended: the write happens exactly when at least one header      *)
(* matched and the buffer the loop ends with differs from the text read.   *)
C10_WriteIffMatchedAndDiffers ==
    [][/\ OneReadPerCall
       /\ AtMostOneWrite
       /\ CallReturns =>
             (writes' # writes <=> (matches # <<>> /\ content # original_content))]_vars

(* A file without any header whose buffer step 1 changed: nothing written. *)
C10_Witness ==
    /\ pc = "ret"
    /\ matches = <<>>
    /\ content # original_content
    /\ writes[Path] = 0
    /\ fs[Path] = original_content

-----------------------------------------------------------------------------
(* C11: a file without any `impl ResourceNormalizer for XNormalizer {`     *)
(* header, whatever its import lines, is left as it was: when              *)
(* migrate_normalizer_file returns, the file holds the text that was read, *)
(* it was never written, False is returned and the line printed last is    *)
(* "No ResourceNormalizer implementations found".                          *)
C11_NoHeaderNoChange ==
    (AtReturn /\ HdrIdx(original_content) = {}) =>
        /\ fs[Path] = original_content
        /\ fs[Path] = fs0[Path]
        /\ writes[Path] = 0
        /\ ret = FALSE
        /\ LastLine = Line("none_found", "", 0)

(* A file with the anyhow import and no header: step 1 added the import to *)
(* the buffer, and the call returned False.                                *)
C11_Witness ==
    /\ AtReturn
    /\ HdrIdx(original_content) = {}
    /\ Has(original_content, "UseAnyhow")
    /\ Has(content, "UseAsync")
    /\ ~Has(fs[Path], "UseAsync")
    /\ ret = FALSE
    /\ LastLine = Line("none_found", "", 0)

(* C12: the per-file report tells how many matches were migrated.  When    *)
(* migrate_normalizer_file returns, a "Migrated N normalizer(s)" line      *)
(* gives as N the number of matches that were spliced, and a file none of  *)
(* whose matches was spliced is not reported as migrated: no such line is  *)
(* printed and False is returned.                                          *)
Spliced == Cardinality({k \in 1..Len(outcomes) : outcomes[k].res = "migrated"})

C12_ReportCountsSpliced ==
    (AtReturn /\ FirstCall) =>
        /\ LastLine.t = "migrated" => LastLine.n = Spliced
        /\ Spliced = 0 => (LastLine.t # "migrated" /\ ret = FALSE)

(* C13: determinism.  What a call of migrate_normalizer_file leaves in the *)
(* file and what it returns are a function of the text it read, whatever   *)
(* the path, the position in the argument list and the files processed     *)
(* before; and two paths that held the same text when the run started, and *)
(* are each given once, hold the same text when the run ends.              *)
SameTextSameResult ==
    \A p, q \in Paths :
        (/\ Exists(p) /\ Exists(q)
         /\ Occurrences(argv, p) = 1 /\ Occurrences(argv, q) = 1
         /\ fs0[p] = fs0[q]) => fs[p] = fs[q]

C13_ResultDependsOnTextOnly ==
    /\ AtReturn =>
          /\ fs[Path] = MigrateText(original_content).text
          /\ ret = MigrateText(original_content).ret
    /\ pc = "exit" => SameTextSameResult

(* Two paths with the same text, both migrated by one run. *)
C13_Witness ==
    /\ pc = "exit"
    /\ argv = <<"a.rs", "b.rs">>
    /\ Exists("a.rs") /\ Exists("b.rs")
    /\ fs0["a.rs"] = fs0["b.rs"]
    /\ fs["a.rs"] = fs["b.rs"]
    /\ fs["a.rs"] # fs0["a.rs"]
    /\ migrated_count = 2

(* C14: migration changes only the spans of the blocks it migrates.  The   *)
(* text of the file after the run is the text before it with the span of   *)
(* each migrated block replaced by some text: what lies before, between    *)
(* and after those spans is still there, unchanged, in the same order, and *)
(* nothing else was added.  Stated for the first run on a file that names  *)
(* each type once and to which step 1 adds no import line.                 *)
MigratedSpans(c) ==
    {j \in 1..Len(c) :
        \E m \in 1..Len(matches) :
            /\ OutcomeOf(m).res = "migrated"
            /\ NthHdr(c, m) <= j
            /\ j <= BlockEndTok(c, NthHdr(c, m))}

(* The stretches of c outside the token set S, in order: before the first  *)
(* span, between two spans, after the last.                                *)
RECURSIVE Gaps(_, _, _, _)
Gaps(c, S, j, cur) ==
    IF j > Len(c) THEN <<cur>>
    ELSE IF j \notin S THEN Gaps(c, S, j + 1, Append(cur, c[j]))
    ELSE IF j > 1 /\ (j - 1) \in S THEN Gaps(c, S, j + 1, cur)
    ELSE <<cur>> \o Gaps(c, S, j + 1, <<>>)

StartsWith(s, g) == Len(g) <= Len(s) /\ SubSeq(s, 1, Len(g)) = g

(* out is gaps[1], some text, gaps[2], some text, ..., the last gap. *)
RECURSIVE Fits(_, _)
Fits(out, gaps) ==
    IF Len(gaps) = 1 THEN out = gaps[1]
    ELSE /\ StartsWith(out, gaps[1])
         /\ \E k \in Len(gaps[1])..Len(out) :
               Fits(SubSeq(out, k + 1, Len(out)), Tail(gaps))

C14_OnlyMigratedSpansChange ==
    (/\ AtReturn /\ FirstCall
     /\ DistinctTypes(original_content)
     /\ AddImport(original_content) = original_content) =>
        Fits(fs[Path],
             Gaps(original_content, MigratedSpans(original_content), 1, <<>>))

(* C15: a write that fails is an error of that file only.  At the step at  *)
(* which the write of a changed buffer does not put the buffer in the      *)
(* file, the file is left as it was, a line reporting the failure is       *)
(* printed and the call returns to main, which goes on with the next path; *)
(* so every run over a non-empty argument list ends with the summary line, *)
(* every existing path having been read once per occurrence.               *)
WriteFailed ==
    /\ pc = "for" /\ mi = 0
    /\ content # original_content
    /\ fs'[Path] # content

RunReachesSummary ==
    (pc = "exit" /\ Len(argv) >= 1) =>
        /\ LastLine.t = "summary"
        /\ \A p \in Paths : Exists(p) => reads[p] = Occurrences(argv, p)

C15_WriteFailureSkipsFile ==
    /\ []RunReachesSummary
    /\ [][WriteFailed =>
            /\ fs' = fs
            /\ Len(stdout') = Len(stdout) + 1
            /\ pc' = "ret" /\ ret' = FALSE]_vars

(* C16: the fragments of a match are taken from the match's own block.     *)
(* When the loop is about to process a match whose start offset is the     *)
(* offset of its header, the normalize signature it finds, the             *)
(* tag-extraction statement it then selects for replacement and the        *)
(* resource_type accessor it then reads all lie strictly inside the block  *)
(* of that header (up to its matching closing brace, or to the end of the  *)
(* text when there is none).  Stated for the first run on a file that      *)
(* names each type once.                                                   *)
TokAt(c, off) ==
    LET S == {j \in 1..Len(c) : CoreOff(c, j) = off}
    IN  IF S = {} THEN 0 ELSE MinOf(S)

InsideBlock(c, h, j) == h < j /\ j < BlockEndTok(c, h)

C16_FragmentsInsideOwnBlock ==
    (pc = "for" /\ mi > 0 /\ FirstCall /\ DistinctTypes(original_content)) =>
        LET c  == content
            lo == matches[mi].start
            hi == matches[mi].start + Window
            h  == TokAt(c, lo)
            nj == Search(c, "NormSig", lo, hi)
            tj == SearchTags(c, lo, hi)
            ij == Search(c, "IdBind", lo, TagsMatchStart(c, tj, lo))
            rj == Search(c, "ResType", lo, hi)
        IN  (h # 0 /\ c[h].k = "Hdr" /\ c[h].n = matches[mi].name) =>
              /\ nj # 0 => InsideBlock(c, h, nj)
              /\ (nj # 0 /\ tj # 0) => InsideBlock(c, h, tj)
              /\ (nj # 0 /\ tj # 0 /\ ij # 0 /\ rj # 0) => InsideBlock(c, h, rj)

(* C17: offsets stay valid.  The loop takes the matches in strictly        *)
(* descending order of start offset; an iteration changes the buffer only  *)
(* at offsets greater than or equal to the start offset of its match; and  *)
(* so, all along the loop, the start offset of every match not yet         *)
(* processed is the offset of the header `impl ResourceNormalizer for T {` *)
(* of the match's own type T.  For every file, those where two headers     *)
(* name the same type or one type name is a prefix of another included.    *)
HeaderAt(c, m) ==
    LET h == TokAt(c, m.start)
    IN  h # 0 /\ c[h].k = "Hdr" /\ c[h].n = m.name

(* Offset of the first character at which the texts a and b differ, taken  *)
(* at the text of the first token that differs; -1 when a = b.             *)
FirstChange(a, b) ==
    LET D == {j \in 1..Len(a) : j > Len(b) \/ a[j] # b[j]}
    IN  IF D # {} THEN CoreOff(a, MinOf(D))
        ELSE IF Len(b) > Len(a) THEN TextLen(a) ELSE -1

C17_PendingOffsetsStayValid ==
    pc = "for" =>
        /\ \A k \in 1..(Len(matches) - 1) : matches[k].start < matches[k + 1].start
        /\ \A k \in 1..Len(outcomes) :
              outcomes[k].start = matches[Len(matches) + 1 - k].start
        /\ mi > 0 =>
              LET r == LoopBody(content, matches[mi])
              IN  r.content # content =>
                      FirstChange(content, r.content) >= matches[mi].start
        /\ \A k \in 1..mi : HeaderAt(content, matches[k])

(* C18: an unbalanced block is skipped without a trace in the buffer.  At  *)
(* the iteration whose brace count reaches the end of the text without     *)
(* coming back to depth zero, the error line naming the type is printed,   *)
(* the buffer after the iteration is the buffer before it, and the loop    *)
(* goes on with the next match.                                            *)
BraceCountFails ==
    /\ pc = "for" /\ mi > 0
    /\ Len(outcomes') = Len(outcomes) + 1
    /\ outcomes'[Len(outcomes')].res = "no_end"

C18_UnbalancedBlockLeavesBuffer ==
    [][BraceCountFails =>
          /\ content' = content
          /\ stdout' = Append(stdout, Line("no_end", matches[mi].name, 0))
          /\ mi' = mi - 1
          /\ pc' = "for"]_vars

(* C19: a structural mismatch leaves the buffer alone.  At the iteration   *)
(* on a match for which the normalize method, the tag-extraction           *)
(* statement, the resource-id binding or the type-tag literal is not found *)
(* in the text searched, the buffer is not changed, one warning is printed *)
(* that names the match's type, and the loop goes on with the next match.  *)
StructuralMismatch(c, m) ==
    LET lo == m.start
        hi == m.start + Window
        tj == SearchTags(c, lo, hi)
    IN  \/ Search(c, "NormSig", lo, hi) = 0
        \/ tj = 0
        \/ Search(c, "IdBind", lo, TagsMatchStart(c, tj, lo)) = 0
        \/ Search(c, "ResType", lo, hi) = 0

Warnings == {"no_normalize", "no_tags", "no_id", "no_type"}

C19_MismatchLeavesBuffer ==
    [][(pc = "for" /\ mi > 0 /\ StructuralMismatch(content, matches[mi])) =>
          /\ content' = content
          /\ Len(stdout') = Len(stdout) + 1
          /\ stdout'[Len(stdout')].t \in Warnings
          /\ stdout'[Len(stdout')].a = matches[mi].name
          /\ mi' = mi - 1
          /\ pc' = "for"]_vars

(* The last block was skipped for its missing resource_type accessor, with *)
(* the buffer as step 1 left it, and the loop is at the block before it.   *)
C19_Witness ==
    /\ pc = "for"
    /\ mi = 1
    /\ Len(outcomes) = 1
    /\ outcomes[1].res = "no_type"
    /\ content = AddImport(original_content)
    /\ stdout[Len(stdout)] = Line("no_type", outcomes[1].name, 0)

(* C20: the diagnostics tell what the block itself lacks.  Once the loop   *)
(* over a file is done, every block of the file that has no synchronous    *)
(* normalize method was reported with the "Could not find normalize()      *)
(* method" warning, and every block that has the method but no             *)
(* tag-extraction statement with the "Could not find tags extraction"      *)
(* warning, whatever blocks follow it.  Stated for the first run on a file *)
(* that names each type once.                                              *)
Reported(t, name) == \E k \in 1..Len(stdout) : stdout[k] = Line(t, name, 0)

C20_DiagnosticNamesWhatBlockLacks ==
    (AtReturn /\ FirstCall /\ DistinctTypes(original_content)) =>
        LET c == original_content
        IN  \A m \in 1..Len(matches) :
              LET b == BlockOf(c, NthHdr(c, m))
              IN  /\ ~HasKind(b, "NormSig") =>
                        /\ OutcomeOf(m).res = "no_normalize"
                        /\ Reported("no_normalize", c[NthHdr(c, m)].n)
                  /\ (HasKind(b, "NormSig") /\ ~HasKind(b, "Tags")) =>
                        /\ OutcomeOf(m).res = "no_tags"
                        /\ Reported("no_tags", c[NthHdr(c, m)].n)

(* C21: the resource-id variable is the first binding.  At an iteration    *)
(* that finds the normalize method and selects a tag-extraction statement, *)
(* take the bindings `let V = raw_response` that lie between the match's   *)
(* start offset and the start of the selected statement.  If there is      *)
(* none, the match is skipped with the resource_id warning and the buffer  *)
(* is unchanged.  Otherwise every fetch call the iteration adds to the     *)
(* buffer names the variable of the first of them, not of the nearest.     *)
Bindings(c, m) ==
    LET lo == m.start
        ts == TagsMatchStart(c, SearchTags(c, lo, lo + Window), lo)
    IN  {j \in 1..Len(c) :
            /\ c[j].k = "IdBind"
            /\ CoreOff(c, j) >= lo
            /\ CoreOff(c, j) + MatchLen(c[j]) <= ts}

SelectsTags(c, m) ==
    /\ Search(c, "NormSig", m.start, m.start + Window) # 0
    /\ SearchTags(c, m.start, m.start + Window) # 0

(* The fetch calls of text b that text a does not have. *)
NewFetchCalls(a, b) ==
    {b[j] : j \in {x \in 1..Len(b) : b[x].k = "AsyncTags"}}
        \ {a[j] : j \in 1..Len(a)}

C21_FirstBindingIsResourceId ==
    [][(pc = "for" /\ mi > 0 /\ SelectsTags(content, matches[mi])) =>
          LET B == Bindings(content, matches[mi])
          IN  IF B = {}
              THEN /\ content' = content
                   /\ stdout' = Append(stdout, Line("no_id", matches[mi].name, 0))
              ELSE \A t \in NewFetchCalls(content, content') :
                       t.v = content[MinOf(B)].n]_vars

(* A fetch call was added for a match that had two bindings before the     *)
(* selected statement: it names the first one.                             *)
C21_Witness ==
    /\ pc = "for"
    /\ Len(outcomes) >= 1
    /\ outcomes[Len(outcomes)].res = "migrated"
    /\ \E j \in 1..Len(content) :
          /\ content[j].k = "AsyncTags"
          /\ content[j].v = "id1"
          /\ \E x \in 1..(j - 1) : content[x].k = "IdBind" /\ content[x].n = "id2"
          /\ \E x \in 1..(j - 1) : content[x].k = "IdBind" /\ content[x].n = "id1"
                                   /\ \E y \in (x + 1)..(j - 1) :
                                         content[y].k = "IdBind" /\ content[y].n = "id2"
          /\ \A x \in 1..(j - 1) : content[x].k # "AsyncTags"

(* C22: the asynchronous block is the asynchronous version of the match's  *)
(* own block.  Once the loop over a file is done, the buffer holds, for    *)
(* every match that was migrated, a block whose header names               *)
(* AsyncResourceNormalizer for the match's type and that is the match's    *)
(* original block with every normalize signature made asynchronous (with   *)
(* the aws_client parameter) and its tag-extraction statement replaced by  *)
(* one fetch call that names the type-tag literal of that block's          *)
(* resource_type accessor and that block's first resource-id variable; no  *)
(* tag-extraction statement remains in it.  Stated for the first run on a  *)
(* file that names each type once.                                         *)
FirstOfKind(b, k) == MinOf({x \in 1..Len(b) : b[x].k = k})

(* The asynchronous version of the block b. *)
AsyncVersion(b) ==
    [x \in 1..Len(b) |->
        IF x = 1 THEN [b[x] EXCEPT !.k = "AsyncHdr"]
        ELSE IF b[x].k = "NormSig" THEN [b[x] EXCEPT !.k = "AsyncSig"]
        ELSE IF b[x].k = "Tags"
             THEN [k |-> "AsyncTags", n |-> b[FirstOfKind(b, "ResType")].n,
                   v |-> b[FirstOfKind(b, "IdBind")].n, i |-> b[x].i, d |-> b[x].i]
        ELSE b[x]]

IsAsyncVersionOf(a, b) ==
    /\ HasKind(b, "Tags") /\ HasKind(b, "ResType") /\ HasKind(b, "IdBind")
    /\ CountTok(b, "Tags", "") = 1
    /\ a = AsyncVersion(b)
    /\ ~HasKind(a, "Tags")

C22_AsyncBlockIsOwnBlockConverted ==
    (AtReturn /\ FirstCall /\ DistinctTypes(original_content)) =>
        \A m \in 1..Len(matches) :
            OutcomeOf(m).res = "migrated" =>
                \E j \in 1..Len(content) :
                    /\ content[j].k = "AsyncHdr"
                    /\ content[j].n = matches[m].name
                    /\ IsAsyncVersionOf(BlockOf(content, j),
                                        BlockOf(original_content,
                                                NthHdr(original_content, m)))

(* C23: the retained synchronous block is the original block plus the      *)
(* fallback comment.  Once the loop over a file is done, the buffer holds, *)
(* for every match that was migrated, a block under the deprecation banner *)
(* whose header is the match's and from which deleting the text            *)
(* " // Fallback to local extraction for sync path" gives the match's      *)
(* original block.  Stated for the first run on a file that names each     *)
(* type once.                                                              *)
IsNotFallback(t) == t.k # "Fallback"

DeleteFallback(b) == SelectSeq(b, IsNotFallback)

C23_RetainedBlockIsOriginalPlusComment ==
    (AtReturn /\ FirstCall /\ DistinctTypes(original_content)) =>
        \A m \in 1..Len(matches) :
            OutcomeOf(m).res = "migrated" =>
                \E j \in 2..Len(content) :
                    /\ content[j - 1] = Banner
                    /\ content[j].k = "Hdr"
                    /\ content[j].n = matches[m].name
                    /\ DeleteFallback(BlockOf(content, j))
                         = BlockOf(original_content, NthHdr(original_content, m))

(* C24: the block that is extracted and replaced is the block of the match *)
(* being processed.  At every iteration that reaches the insertion step,   *)
(* the header that content.find('impl ResourceNormalizer for <name>')      *)
(* returns is the header at the match's start offset; in every file, also  *)
(* when the same header text occurs earlier, in another impl for the same  *)
(* type or as the beginning of the header of a longer type name.           *)
ReachesInsertion(c, m) ==
    /\ ~StructuralMismatch(c, m)
    /\ FindImpl(c, m.name) # 0

C24_FindReturnsMatchStart ==
    (pc = "for" /\ mi > 0 /\ ReachesInsertion(content, matches[mi])) =>
        /\ CoreOff(content, FindImpl(content, matches[mi].name)) = matches[mi].start
        /\ LoopBody(content, matches[mi]).p = TokAt(content, matches[mi].start)

(* C25: the attribute comes with its import.  When migrate_normalizer_file *)
(* has written a text that holds a synthesized `#[async_trait]` block, the *)
(* text holds the line `use async_trait::async_trait;`; and a text that    *)
(* had the line when it was read has no more copies of it in the buffer.   *)
CountKind(c, k) == Cardinality({j \in 1..Len(c) : c[j].k = k})

C25_AsyncBlockHasImport ==
    AtReturn =>
        /\ (ret = TRUE /\ Has(fs[Path], "AsyncHdr")) => Has(fs[Path], "UseAsync")
        /\ Has(original_content, "UseAsync") =>
              CountKind(content, "UseAsync") = CountKind(original_content, "UseAsync")

(* C26: the "Lost track of impl" branch is never taken.  No iteration ends *)
(* in that branch and its error line is never printed: whenever the loop   *)
(* is about to process a match for which the four fragments are found, the *)
(* buffer still holds a header `impl ResourceNormalizer for <name>` for    *)
(* the match's type, and the iteration goes on to the brace count.         *)
C26_LostTrackUnreachable ==
    /\ \A k \in 1..Len(outcomes) : outcomes[k].res # "lost"
    /\ \A k \in 1..Len(stdout) : stdout[k].t # "lost"
    /\ (pc = "for" /\ mi > 0 /\ ~StructuralMismatch(content, matches[mi])) =>
          /\ FindImpl(content, matches[mi].name) # 0
          /\ LoopBody(content, matches[mi]).res \in {"no_end", "migrated"}

(* A match reaches the insertion step after an earlier iteration rewrote   *)
(* the text at its start offset: its header is found further down.         *)
C26_Witness ==
    /\ pc = "for"
    /\ mi > 0
    /\ Len(outcomes) >= 1
    /\ ~StructuralMismatch(content, matches[mi])
    /\ ~HeaderAt(content, matches[mi])
    /\ FindImpl(content, matches[mi].name) # 0

====
